---------------------------- MODULE Spec2Model ----------------------------
(***************************************************************************)
(* NASA Space Explorer (js/script.js): the gallery page as a state machine. *)
(*                                                                         *)
(* State: the in-memory item list (apodItems), the contents of the gallery *)
(* element, the lazily built modal (modalOverlay, its inner container, the  *)
(* listeners it registered), and the position of every fetchAndRender call  *)
(* that was started.  One action per listener or continuation of the code.  *)
(*                                                                         *)
(* Conventions.  A JavaScript value is a record tagged by its typeof/null:  *)
(* Undefined, Null, Num(n), Str(s), Obj(fields).  A text is a sequence of   *)
(* tokens; dates, URLs and numbers are spelled one character per token, so  *)
(* that the regular expressions of the code are matched position by         *)
(* position.  Text fields of feed items are plain text (no markup).         *)
(***************************************************************************)
EXTENDS Integers, Sequences, FiniteSets, TLC

VARIABLES
    apodItems,            \* script.js:48   let apodItems = []
    gallery,              \* script.js:45   contents of the #gallery element
    modalOverlay,         \* script.js:132  "null", or the overlay's style.display
    modalInner,           \* script.js:158  contents of #modalInner
    bodyOverlays,         \* script.js:168  overlays appended to document.body
    docKeydownListeners,  \* script.js:171  keydown listeners added to document
    pc,                   \* script.js:241  position of each started fetchAndRender
    ev,                   \* the listener or continuation that ran last, with its input
    fetchEv,              \* the last start or completion of a fetchAndRender call
    callArg,              \* argument of the last direct call of formatDate
    callRet               \* value returned by the last direct call of formatDate

vars == <<apodItems, gallery, modalOverlay, modalInner, bodyOverlays,
          docKeydownListeners, pc, ev, fetchEv, callArg, callRet>>

(***************************************************************************)
(* Bounds of the model.                                                     *)
(***************************************************************************)
\* Calls of fetchAndRender that may be started (overlapping included).
MaxFetches == 2
\* Longest array the feed returns.
MaxLen == 2

(***************************************************************************)
(* JavaScript values.                                                       *)
(***************************************************************************)
Undefined == [t |-> "undefined"]
Null == [t |-> "null"]
Num(n) == [t |-> "number", n |-> n]
Str(s) == [t |-> "string", s |-> s]
Obj(f) == [t |-> "object", f |-> f]

\* ToBoolean: what `if (x)`, `x || y` and `!x` test.
Truthy(v) ==
    CASE v.t = "undefined" -> FALSE
      [] v.t = "null" -> FALSE
      [] v.t = "number" -> v.n # 0
      [] v.t = "string" -> v.s # <<>>
      [] OTHER -> TRUE

\* a || b
Or(a, b) == IF Truthy(a) THEN a ELSE b

\* v.name for a value that is neither null nor undefined: a primitive has
\* none of the fields the code reads.
Get(v, name) == IF v.t = "object" THEN v.f[name] ELSE Undefined

DigitChars == <<"0", "1", "2", "3", "4", "5", "6", "7", "8", "9">>

\* \d
IsDigit(c) == c \in {"0", "1", "2", "3", "4", "5", "6", "7", "8", "9"}

DigitVal(c) ==
    CASE c = "0" -> 0 [] c = "1" -> 1 [] c = "2" -> 2 [] c = "3" -> 3 [] c = "4" -> 4
      [] c = "5" -> 5 [] c = "6" -> 6 [] c = "7" -> 7 [] c = "8" -> 8 [] c = "9" -> 9

\* parseInt(s, 10) for a text s of decimal digits; NaN is -1 (no index).
RECURSIVE ParseDigits(_)
ParseDigits(s) ==
    IF s = <<>> THEN 0
    ELSE 10 * ParseDigits(SubSeq(s, 1, Len(s) - 1)) + DigitVal(s[Len(s)])

parseInt(s) ==
    IF s # <<>> /\ \A i \in 1..Len(s) : IsDigit(s[i]) THEN ParseDigits(s) ELSE -1

\* String(n) for a natural number n.
RECURSIVE NatToText(_)
NatToText(n) ==
    IF n < 10 THEN <<DigitChars[n + 1]>>
    ELSE NatToText(n \div 10) \o <<DigitChars[(n % 10) + 1]>>

\* `${v}`: the text a template literal inserts for v.
ToText(v) ==
    CASE v.t = "undefined" -> <<"undefined">>
      [] v.t = "null" -> <<"null">>
      [] v.t = "number" -> NatToText(v.n)
      [] v.t = "string" -> v.s
      [] OTHER -> <<"[object Object]">>

Max(a, b) == IF a >= b THEN a ELSE b

Min(a, b) == IF a <= b THEN a ELSE b

(***************************************************************************)
(* formatDate (script.js:53-62).                                            *)
(***************************************************************************)
months == << <<"J", "a", "n">>, <<"F", "e", "b">>, <<"M", "a", "r">>,
             <<"A", "p", "r">>, <<"M", "a", "y">>, <<"J", "u", "n">>,
             <<"J", "u", "l">>, <<"A", "u", "g">>, <<"S", "e", "p">>,
             <<"O", "c", "t">>, <<"N", "o", "v">>, <<"D", "e", "c">> >>

\* isoDate.match(/^(\d{4})-(\d{2})-(\d{2})$/) succeeds.
DateMatch(s) ==
    /\ Len(s) = 10
    /\ \A i \in {1, 2, 3, 4, 6, 7, 9, 10} : IsDigit(s[i])
    /\ s[5] = "-"
    /\ s[8] = "-"

FormatDateMutDay(isoDate) ==
    IF isoDate.t # "string" THEN <<>>
    ELSE IF ~DateMatch(isoDate.s) THEN isoDate.s
    ELSE LET y == SubSeq(isoDate.s, 1, 4)
             m == SubSeq(isoDate.s, 6, 7)
             d == SubSeq(isoDate.s, 9, 10)
             monthName == months[Max(0, Min(11, parseInt(m) - 1)) + 1]
         IN  monthName \o <<" ">> \o d \o <<",", " ">> \o y

formatDate(isoDate) ==
    IF isoDate.t # "string" THEN <<>>
    ELSE IF ~DateMatch(isoDate.s) THEN isoDate.s
    ELSE LET y == SubSeq(isoDate.s, 1, 4)
             m == SubSeq(isoDate.s, 6, 7)
             d == SubSeq(isoDate.s, 9, 10)
             monthName == months[Max(0, Min(11, parseInt(m) - 1)) + 1]
             day == NatToText(parseInt(d))
         IN  monthName \o <<" ">> \o day \o <<",", " ">> \o y

(***************************************************************************)
(* Gallery contents: showLoading, renderGallery, the error view.            *)
(***************************************************************************)
\* What the host page shows in #gallery before the first fetch (no cards).
InitialView == [mode |-> "initial", cards |-> <<>>, message |-> <<>>]

ShowLoadingMutBlank == [mode |-> "cards", cards |-> <<>>, message |-> <<>>]

\* showLoading (script.js:65-72): gallery.innerHTML = the loading placeholder.
showLoading == [mode |-> "loading", cards |-> <<>>, message |-> <<>>]

\* The catch block (script.js:262-268): the friendly sentence and err.message.
ErrorView(message) == [mode |-> "error", cards |-> <<>>, message |-> message]

IsText(v, token) == v = Str(<<token>>)

\* The visual preview of one card (script.js:81-115).
cardVisual(item) ==
    LET media_type == Get(item, "media_type")
        title == Get(item, "title")
    IN  IF IsText(media_type, "image")
        THEN [kind |-> "img",
              src |-> ToText(Or(Or(Get(item, "url"), Get(item, "hdurl")), Str(<<>>))),
              alt |-> ToText(title)]
        ELSE IF IsText(media_type, "video")
        THEN IF Truthy(Get(item, "thumbnail_url"))
             THEN [kind |-> "img",
                   src |-> ToText(Get(item, "thumbnail_url")),
                   alt |-> ToText(title) \o <<" (video)">>]
             ELSE [kind |-> "video-placeholder", src |-> <<>>, alt |-> <<>>]
        ELSE [kind |-> "unsupported", src |-> <<>>, alt |-> <<>>]

RenderCardMutIndex(item, index) ==
    [dataIndex |-> NatToText(index + 1),
     visual |-> cardVisual(item),
     title |-> ToText(Get(item, "title")),
     date |-> formatDate(Get(item, "date"))]

\* One card (script.js:118-124): data-index, visual, title, date (the
\* aria-label repeats the title and the date).
renderCard(item, index) ==
    [dataIndex |-> NatToText(index),
     visual |-> cardVisual(item),
     title |-> ToText(Get(item, "title")),
     date |-> formatDate(Get(item, "date"))]

\* const { media_type, title, date } = item throws for null and undefined.
CanDestructure(item) == item.t \notin {"null", "undefined"}

\* The TypeError of line 78 names the value that could not be destructured.
DestructureMessage(item) ==
    IF item.t = "null"
    THEN <<"Cannot destructure property 'media_type' of 'item' as it is null.">>
    ELSE <<"Cannot destructure property 'media_type' of 'item' as it is undefined.">>

\* The first element the map callback throws on.
FirstFailing(items) ==
    items[CHOOSE i \in 1..Len(items) :
            /\ ~CanDestructure(items[i])
            /\ \A j \in 1..(i - 1) : CanDestructure(items[j])]

\* renderGallery (script.js:75-129): either the map callback throws, and
\* gallery.innerHTML is not assigned, or the gallery holds one card per item.
renderGallery(items) ==
    IF \E i \in 1..Len(items) : ~CanDestructure(items[i])
    THEN [threw |-> TRUE, message |-> DestructureMessage(FirstFailing(items)),
          view |-> InitialView]
    ELSE [threw |-> FALSE, message |-> <<>>,
          view |-> [mode |-> "cards",
                    cards |-> [i \in 1..Len(items) |-> renderCard(items[i], i - 1)],
                    message |-> <<>>]]

(***************************************************************************)
(* The modal: openModal's content (script.js:183-227).                      *)
(***************************************************************************)
IdChars ==
    {"a", "b", "c", "d", "e", "f", "g", "h", "i", "j", "k", "l", "m",
     "n", "o", "p", "q", "r", "s", "t", "u", "v", "w", "x", "y", "z",
     "A", "B", "C", "D", "E", "F", "G", "H", "I", "J", "K", "L", "M",
     "N", "O", "P", "Q", "R", "S", "T", "U", "V", "W", "X", "Y", "Z",
     "0", "1", "2", "3", "4", "5", "6", "7", "8", "9", "_", "-"}

\* s.includes(pat)
Includes(s, pat) ==
    \E i \in 1..(Len(s) - Len(pat) + 1) : SubSeq(s, i, i + Len(pat) - 1) = pat

\* /embed\/([a-zA-Z0-9_-]+)/ matches s at position i.
EmbedAt(s, i) ==
    /\ i + 6 <= Len(s)
    /\ SubSeq(s, i, i + 5) = <<"e", "m", "b", "e", "d", "/">>
    /\ s[i + 6] \in IdChars

\* The end of the longest run of identifier characters starting at j.
RECURSIVE RunEnd(_, _)
RunEnd(s, j) == IF j < Len(s) /\ s[j + 1] \in IdChars THEN RunEnd(s, j + 1) ELSE j

\* url.match(/embed\/([a-zA-Z0-9_-]+)/)?.[1]: the group of the leftmost match,
\* or the empty text for undefined.
videoId(s) ==
    IF \E i \in 1..Len(s) : EmbedAt(s, i)
    THEN LET i == CHOOSE k \in 1..Len(s) :
                      EmbedAt(s, k) /\ \A l \in 1..(k - 1) : ~EmbedAt(s, l)
         IN  SubSeq(s, i + 6, RunEnd(s, i + 6))
    ELSE <<>>

NoMedia(kind) == [kind |-> kind, src |-> <<>>, alt |-> <<>>, href |-> <<>>]

\* item.url.includes is not a function when url is truthy and no string.
openModalThrows(item) ==
    /\ IsText(Get(item, "media_type"), "video")
    /\ Truthy(Get(item, "url"))
    /\ Get(item, "url").t # "string"

modalMedia(item, title) ==
    LET url == Get(item, "url")
    IN  IF IsText(Get(item, "media_type"), "image")
        THEN [kind |-> "img",
              src |-> ToText(Or(Or(Get(item, "hdurl"), url), Str(<<>>))),
              alt |-> ToText(title), href |-> <<>>]
        ELSE IF IsText(Get(item, "media_type"), "video")
        THEN IF Truthy(url) /\ Includes(url.s, <<"e", "m", "b", "e", "d">>)
             THEN [kind |-> "iframe", src |-> url.s, alt |-> ToText(title),
                   href |-> IF videoId(url.s) # <<>>
                            THEN <<"https://www.youtube.com/watch?v=">> \o videoId(url.s)
                            ELSE url.s]
             ELSE IF Truthy(url)
             THEN [kind |-> "link", src |-> <<>>, alt |-> <<>>, href |-> url.s]
             ELSE NoMedia("unavailable")
        ELSE NoMedia("unsupported")

\* What openModal writes into #modalInner for item (script.js:183-227).
modalHTML(item) ==
    LET title == Or(Get(item, "title"), Str(<<"Untitled">>))
    IN  [title |-> ToText(title),
         date |-> formatDate(Or(Get(item, "date"), Str(<<>>))),
         media |-> modalMedia(item, title),
         explanation |-> ToText(Or(Get(item, "explanation"), Str(<<>>)))]

\* #modalInner as ensureModal creates it: empty.
EmptyInner == [title |-> <<>>, date |-> <<>>, media |-> NoMedia("none"), explanation |-> <<>>]

(***************************************************************************)
(* The modal as a state: the module-level handle modalOverlay (script.js:   *)
(* 132), #modalInner, and what ensureModal added to the document.           *)
(***************************************************************************)
Modal(overlay, inner, overlays, listeners) ==
    [modalOverlay |-> overlay, modalInner |-> inner,
     bodyOverlays |-> overlays, docKeydownListeners |-> listeners]

NoModal == Modal("null", EmptyInner, 0, 0)

EnsureModalMutNoGuard(m) ==
    Modal("none", m.modalInner, m.bodyOverlays + 1, m.docKeydownListeners + 1)

\* ensureModal (script.js:135-176): builds the overlay, its content box, the
\* close button and #modalInner, appends the overlay to the body and adds the
\* document keydown listener, unless modalOverlay is already set.
ensureModal(m) ==
    IF m.modalOverlay # "null" THEN m
    ELSE Modal("none", EmptyInner, m.bodyOverlays + 1, m.docKeydownListeners + 1)

\* openModal (script.js:179-231).
openModal(m, item) ==
    IF openModalThrows(item)
    THEN [m |-> ensureModal(m), threw |-> TRUE]
    ELSE [m |-> [ensureModal(m) EXCEPT !.modalInner = modalHTML(item),
                                       !.modalOverlay = "flex"],
          threw |-> FALSE]

CloseModalMutToggle(m) ==
    IF m.modalOverlay = "null" THEN [m |-> m, threw |-> FALSE]
    ELSE [m |-> [m EXCEPT !.modalOverlay = IF @ = "none" THEN "flex" ELSE "none"],
          threw |-> FALSE]

\* closeModal (script.js:234-238).
closeModal(m) ==
    IF m.modalOverlay # "null"
    THEN [m |-> [m EXCEPT !.modalOverlay = "none"], threw |-> FALSE]
    ELSE [m |-> m, threw |-> FALSE]

(***************************************************************************)
(* fetchAndRender (script.js:241-270) after each of its two awaits.         *)
(***************************************************************************)
\* err.message (line 266) of a rejection is the text the engine gives it:
\* the rejection carries it, and these are wordings of several engines.
FetchRejectMessages == {<<"Failed to fetch">>, <<"fetch failed">>}

JsonSyntaxMessages ==
    {<<"Unexpected token < in JSON at position 0">>,
     <<"Unexpected token '<', \"<\" is not valid JSON">>}

FormatMessage == <<"Unexpected data format (expected an array).">>

NetworkMessage(status) == <<"Network error: ">> \o NatToText(status)

\* res.ok
Ok(status) == status \in 200..299

Array(a) == [t |-> "array", a |-> a]

\* Array.isArray(data)
IsArray(data) == data.t = "array"

AfterFetchMutClear(items, r) ==
    IF r.kind = "rejected"
    THEN [apodItems |-> <<>>, caught |-> TRUE, view |-> ErrorView(r.message)]
    ELSE IF ~Ok(r.status)
    THEN [apodItems |-> <<>>, caught |-> TRUE, view |-> ErrorView(NetworkMessage(r.status))]
    ELSE [apodItems |-> items, caught |-> FALSE, view |-> showLoading]

\* Lines 246-249 and the catch block: the fetch promise settles with r.
afterFetch(items, r) ==
    IF r.kind = "rejected"
    THEN [apodItems |-> items, caught |-> TRUE, view |-> ErrorView(r.message)]
    ELSE IF ~Ok(r.status)
    THEN [apodItems |-> items, caught |-> TRUE, view |-> ErrorView(NetworkMessage(r.status))]
    ELSE [apodItems |-> items, caught |-> FALSE, view |-> showLoading]

AfterJsonMutMerge(items, b) ==
    IF b.kind = "syntax-error"
    THEN [apodItems |-> items, view |-> ErrorView(b.message)]
    ELSE IF ~IsArray(b.data)
    THEN [apodItems |-> items, view |-> ErrorView(FormatMessage)]
    ELSE LET rendered == renderGallery(items \o b.data.a)
         IN  [apodItems |-> items \o b.data.a,
              view |-> IF rendered.threw THEN ErrorView(rendered.message)
                       ELSE rendered.view]

AfterJsonMutRenderOnly(items, b) ==
    IF b.kind = "syntax-error"
    THEN [apodItems |-> items, view |-> ErrorView(b.message)]
    ELSE IF ~IsArray(b.data)
    THEN [apodItems |-> items, view |-> ErrorView(FormatMessage)]
    ELSE LET rendered == renderGallery(b.data.a)
         IN  [apodItems |-> items,
              view |-> IF rendered.threw THEN ErrorView(rendered.message)
                       ELSE rendered.view]

\* Lines 250-259 and the catch block: the json promise settles with b.
afterJson(items, b) ==
    IF b.kind = "syntax-error"
    THEN [apodItems |-> items, view |-> ErrorView(b.message)]
    ELSE IF ~IsArray(b.data)
    THEN [apodItems |-> items, view |-> ErrorView(FormatMessage)]
    ELSE LET rendered == renderGallery(b.data.a)
         IN  [apodItems |-> b.data.a,
              view |-> IF rendered.threw THEN ErrorView(rendered.message)
                       ELSE rendered.view]

(***************************************************************************)
(* The gallery listeners (script.js:278-295).                               *)
(***************************************************************************)
\* apodItems[index]
ItemAt(items, index) ==
    IF index \in 0..(Len(items) - 1) THEN items[index + 1] ELSE Undefined

\* The item a click or Enter resolves to: target is the position in the
\* gallery of the card that e.target.closest('.gallery-item') finds, 0 when
\* it finds none; the card's data-index is parsed and looked up.
selectedItem(items, cards, target) ==
    IF target = 0 THEN Undefined
    ELSE ItemAt(items, parseInt(cards[target].dataIndex))

SelectMutNoCheck(m, item) ==
    IF item.t # "undefined" THEN openModal(m, item) ELSE [m |-> m, threw |-> FALSE]

\* if (item) openModal(item);
select(m, item) ==
    IF Truthy(item) THEN openModal(m, item) ELSE [m |-> m, threw |-> FALSE]

\* The document keydown listeners of ensureModal (script.js:171-175), each
\* run once for the event.
RECURSIVE documentKeydown(_, _, _)
documentKeydown(m, key, listeners) ==
    IF listeners = 0 THEN [m |-> m, threw |-> FALSE]
    ELSE IF key = "Escape"
    THEN LET r == closeModal(m)
             rest == documentKeydown(r.m, key, listeners - 1)
         IN  [m |-> rest.m, threw |-> r.threw \/ rest.threw]
    ELSE documentKeydown(m, key, listeners - 1)

OverlayClickMutAnyTarget(m, target) == closeModal(m)

\* The click listeners of the modal (script.js:153, 163-165): the close
\* button's, then, as the event bubbles, the overlay's.
modalClick(m, target) ==
    IF target = "closeBtn" THEN closeModal(m)
    ELSE IF target = "modalOverlay" THEN closeModal(m)
    ELSE [m |-> m, threw |-> FALSE]

(***************************************************************************)
(* Inputs: what the feed answers, the keys, the click targets.              *)
(***************************************************************************)
Chars(y, m, d, sep1, sep2) == y \o <<sep1>> \o m \o <<sep2>> \o d

ImageItem ==
    Obj([media_type |-> Str(<<"image">>),
         title |-> Str(<<"Moon">>),
         date |-> Str(<<"2", "0", "2", "5", "-", "1", "0", "-", "2", "7">>),
         url |-> Str(<<"a.jpg">>),
         hdurl |-> Str(<<"a-hd.jpg">>),
         thumbnail_url |-> Undefined,
         explanation |-> Str(<<"The Moon.">>)])

VideoItem ==
    Obj([media_type |-> Str(<<"video">>),
         title |-> Undefined,
         date |-> Str(<<"2", "0", "2", "5", "-", "0", "1", "-", "0", "5">>),
         url |-> Str(<<"/", "e", "m", "b", "e", "d", "/", "a", "_", "1", "?">>),
         hdurl |-> Undefined,
         thumbnail_url |-> Undefined,
         explanation |-> Undefined])

\* The elements a feed array is built from: two items and a falsy primitive.
Catalog == {ImageItem, VideoItem, Num(0)}

\* Arrays with an element that is null, which renderGallery cannot destructure.
NullArrays == {<<Null>>, <<ImageItem, Null>>}

\* The arrays the feed returns: up to MaxLen pairwise distinct elements (one
\* entry per day) in any order, and the arrays holding a null.
Arrays ==
    NullArrays
    \cup UNION {{a \in [1..k -> Catalog] : \A i, j \in 1..k : a[i] = a[j] => i = j} :
                k \in 0..MaxLen}

Responses ==
    {[kind |-> "rejected", message |-> e] : e \in FetchRejectMessages}
    \cup {[kind |-> "response", status |-> st] : st \in {200, 404, 500}}

Bodies ==
    {[kind |-> "syntax-error", message |-> e] : e \in JsonSyntaxMessages}
    \cup {[kind |-> "json", data |-> v] : v \in {Null, ImageItem}}
    \cup {[kind |-> "json", data |-> Array(a)] : a \in Arrays}

Keys == {"Enter", "Escape", "a"}

ModalTargets == {"closeBtn", "modalOverlay", "modalContent"}

\* Items openModal is called with directly: the two of the feed, a video
\* with a plain link, one whose embed URL has no id, one with no URL, and an
\* unknown media type.
LinkVideo == Obj([VideoItem.f EXCEPT !.url = Str(<<"v", ".", "m", "p", "4">>)])

BareEmbedVideo == Obj([VideoItem.f EXCEPT !.url = Str(<<"/", "e", "m", "b", "e", "d", "/">>)])

NoUrlVideo == Obj([VideoItem.f EXCEPT !.url = Undefined])

OtherItem == Obj([ImageItem.f EXCEPT !.media_type = Str(<<"asteroid">>)])

CallItems == {ImageItem, VideoItem, LinkVideo, BareEmbedVideo, NoUrlVideo, OtherItem}

Year == <<"2", "0", "2", "5">>

Months == {<<"0", "0">>, <<"0", "1">>, <<"0", "2">>, <<"0", "9">>, <<"1", "0">>,
           <<"1", "1">>, <<"1", "2">>, <<"1", "3">>, <<"9", "9">>}

Days == {<<"0", "0">>, <<"0", "1">>, <<"0", "5">>, <<"0", "9">>, <<"1", "0">>,
         <<"2", "7">>, <<"3", "1">>}

DateInputs ==
    {Str(Chars(Year, m, d, "-", s2)) : m \in Months, d \in Days, s2 \in {"-", "/"}}
    \cup {Str(<<>>),
          Str(<<"0", "0", "0", "1", "-", "0", "2", "-", "0", "9">>),
          Str(<<"2", "0", "2", "5", "/", "1", "0", "-", "2", "7">>),
          Str(<<"2", "0", "2", "5", "-", "1", "0", "-", "2", "7", "\n">>),
          Str(<<" ", "2", "0", "2", "5", "-", "1", "0", "-", "2", "7">>),
          Str(<<"2", "0", "2", "5", "-", "1", "-", "2", "7">>),
          Str(<<"2", "0", "2", "5", "-", "1", "0", "-", "2", "a">>),
          Str(<<"2", "0", "2", "5", "1", "0", "2", "7">>),
          Str(<<"x", "0", "2", "5", "-", "1", "0", "-", "2", "7">>),
          Undefined, Null, Num(20251027), ImageItem}

(***************************************************************************)
(* The state machine.                                                       *)
(***************************************************************************)
\* The handler that ran last: its name, the position of the card it resolved
\* (0: none, or none looked for), the key or the element clicked, the argument
\* of a direct call, the display of the modal before it ran, and whether an
\* exception left it.
Event(op, n, key, data, before, threw) ==
    [op |-> op, n |-> n, key |-> key, data |-> data, before |-> before, threw |-> threw]

\* The last start or completion of a fetchAndRender call: what the call
\* completed with, whether a call started after it had completed before it
\* (stale), whether the item list was non-empty before the completion and
\* whether the completion changed it.
FetchEvent(op, data, stale, hadItems, changed) ==
    [op |-> op, data |-> data, stale |-> stale, hadItems |-> hadItems,
     changed |-> changed]

\* A call started after call f has completed already.
Stale(f) == \E g \in (f + 1)..Len(pc) : pc[g] = "done"

TheModal == Modal(modalOverlay, modalInner, bodyOverlays, docKeydownListeners)

SetModal(m) ==
    /\ modalOverlay' = m.modalOverlay
    /\ modalInner' = m.modalInner
    /\ bodyOverlays' = m.bodyOverlays
    /\ docKeydownListeners' = m.docKeydownListeners

Init ==
    /\ apodItems = <<>>
    /\ gallery = InitialView
    /\ modalOverlay = "null"
    /\ modalInner = EmptyInner
    /\ bodyOverlays = 0
    /\ docKeydownListeners = 0
    /\ pc = <<>>
    /\ ev = Event("load", 0, "", Undefined, "null", FALSE)
    /\ fetchEv = FetchEvent("none", Undefined, FALSE, FALSE, FALSE)
    /\ callArg = Undefined
    /\ callRet = <<>>

\* A click on #getImageBtn: fetchAndRender runs to its first await.
ButtonClick ==
    /\ Len(pc) < MaxFetches
    /\ gallery' = showLoading
    /\ pc' = Append(pc, "fetch")
    /\ ev' = Event("fetchAndRender", 0, "", Undefined, modalOverlay, FALSE)
    /\ fetchEv' = FetchEvent("start", Undefined, FALSE, FALSE, FALSE)
    /\ UNCHANGED <<apodItems, modalOverlay, modalInner, bodyOverlays,
                   docKeydownListeners, callArg, callRet>>

\* `await fetch(apodData)` of call f settles with r.
FetchSettles(f, r) ==
    /\ pc[f] = "fetch"
    /\ LET next == afterFetch(apodItems, r)
       IN  /\ apodItems' = next.apodItems
           /\ gallery' = IF next.caught THEN next.view ELSE gallery
           /\ pc' = [pc EXCEPT ![f] = IF next.caught THEN "done" ELSE "json"]
           /\ fetchEv' = IF next.caught
                         THEN FetchEvent("settled", r, Stale(f), apodItems # <<>>,
                                         next.apodItems # apodItems)
                         ELSE fetchEv
    /\ ev' = Event("fetchSettles", 0, "", Undefined, modalOverlay, FALSE)
    /\ UNCHANGED <<modalOverlay, modalInner, bodyOverlays, docKeydownListeners,
                   callArg, callRet>>

\* `await res.json()` of call f settles with b.
JsonSettles(f, b) ==
    /\ pc[f] = "json"
    /\ LET next == afterJson(apodItems, b)
       IN  /\ apodItems' = next.apodItems
           /\ gallery' = next.view
           /\ fetchEv' = FetchEvent("settled", b, Stale(f), apodItems # <<>>,
                                    next.apodItems # apodItems)
    /\ pc' = [pc EXCEPT ![f] = "done"]
    /\ ev' = Event("jsonSettles", 0, "", Undefined, modalOverlay, FALSE)
    /\ UNCHANGED <<modalOverlay, modalInner, bodyOverlays, docKeydownListeners,
                   callArg, callRet>>

\* A click inside #gallery, on or within the card at position target, or
\* outside every card (target 0).
GalleryClick(target) ==
    /\ LET r == select(TheModal, selectedItem(apodItems, gallery.cards, target))
       IN  /\ SetModal(r.m)
           /\ ev' = Event("galleryClick", target, "", Undefined, modalOverlay, r.threw)
    /\ UNCHANGED <<apodItems, gallery, pc, fetchEv, callArg, callRet>>

\* A keydown inside #gallery: the gallery's listener, then the document's.
GalleryKeydown(key, target) ==
    /\ LET r == IF key # "Enter" THEN [m |-> TheModal, threw |-> FALSE]
                ELSE select(TheModal, selectedItem(apodItems, gallery.cards, target))
           d == documentKeydown(r.m, key, r.m.docKeydownListeners)
       IN  /\ SetModal(d.m)
           /\ ev' = Event("galleryKeydown", IF key = "Enter" THEN target ELSE 0, key,
                          Undefined, modalOverlay, r.threw \/ d.threw)
    /\ UNCHANGED <<apodItems, gallery, pc, fetchEv, callArg, callRet>>

\* A keydown anywhere else in the document.
DocumentKeydown(key) ==
    /\ LET d == documentKeydown(TheModal, key, docKeydownListeners)
       IN  /\ SetModal(d.m)
           /\ ev' = Event("documentKeydown", 0, key, Undefined, modalOverlay, d.threw)
    /\ UNCHANGED <<apodItems, gallery, pc, fetchEv, callArg, callRet>>

\* A click on the visible modal: target is the element clicked.
ModalClick(target) ==
    /\ modalOverlay = "flex"
    /\ LET r == modalClick(TheModal, target)
       IN  /\ SetModal(r.m)
           /\ ev' = Event("modalClick", 0, target, Undefined, modalOverlay, r.threw)
    /\ UNCHANGED <<apodItems, gallery, pc, fetchEv, callArg, callRet>>

Next ==
    \/ ButtonClick
    \/ \E f \in 1..Len(pc), r \in Responses : FetchSettles(f, r)
    \/ \E f \in 1..Len(pc), b \in Bodies : JsonSettles(f, b)
    \/ \E target \in 0..Len(gallery.cards) : GalleryClick(target)
    \/ \E key \in Keys, target \in 0..Len(gallery.cards) : GalleryKeydown(key, target)
    \/ \E key \in Keys : DocumentKeydown(key)
    \/ \E target \in ModalTargets : ModalClick(target)

\* The page: the button, the feed's answers and the user's events.
Spec == Init /\ [][Next]_vars

(***************************************************************************)
(* The functions called directly, as a test of the script calls them.       *)
(***************************************************************************)
CallFormatDate(isoDate) ==
    /\ callArg' = isoDate
    /\ callRet' = formatDate(isoDate)
    /\ ev' = Event("formatDate", 0, "", Undefined, modalOverlay, FALSE)
    /\ UNCHANGED <<apodItems, gallery, modalOverlay, modalInner, bodyOverlays,
                   docKeydownListeners, pc, fetchEv>>

CallOpenModal(item) ==
    /\ LET r == openModal(TheModal, item)
       IN  /\ SetModal(r.m)
           /\ ev' = Event("openModal", 0, "", item, modalOverlay, r.threw)
    /\ UNCHANGED <<apodItems, gallery, pc, fetchEv, callArg, callRet>>

CallCloseModal ==
    /\ LET r == closeModal(TheModal)
       IN  /\ SetModal(r.m)
           /\ ev' = Event("closeModal", 0, "", Undefined, modalOverlay, r.threw)
    /\ UNCHANGED <<apodItems, gallery, pc, fetchEv, callArg, callRet>>

NextUnit ==
    \/ \E isoDate \in DateInputs : CallFormatDate(isoDate)
    \/ \E item \in CallItems : CallOpenModal(item)
    \/ CallCloseModal

SpecUnit == Init /\ [][NextUnit]_vars

(***************************************************************************)
(* Properties.                                                              *)
(***************************************************************************)
Pending == \E f \in 1..Len(pc) : pc[f] # "done"

AllDone == Len(pc) >= 1 /\ \A f \in 1..Len(pc) : pc[f] = "done"

\* The completion d is one of the failures: a request that could not
\* complete, a non-success status, a body that does not parse, a body that
\* is no array.
Failed(d) ==
    \/ d.kind = "rejected"
    \/ d.kind = "response" /\ d.status \notin 200..299
    \/ d.kind = "syntax-error"
    \/ d.kind = "json" /\ d.data.t # "array"

\* The completion d delivered an array.
Delivered(d) == d.kind = "json" /\ d.data.t = "array"

\* Every element of the array is an item: JSON null is none.
AllItems(a) == \A i \in 1..Len(a) : a[i] # Null

\* The message shown is the failure's own text: the status code follows the
\* words "Network error: " for a non-success status.
CarriesFailure(d, message) ==
    CASE d.kind = "rejected" -> message = d.message
      [] d.kind = "response" ->
            /\ Len(message) >= 2
            /\ message[1] = "Network error: "
            /\ parseInt(SubSeq(message, 2, Len(message))) = d.status
      [] d.kind = "syntax-error" -> message = d.message
      [] OTHER -> message = <<"Unexpected data format (expected an array).">>

\* C1: a call of fetchAndRender that fails (the request cannot complete, a
\* non-success status, a body that does not parse or is no array) leaves the
\* grid in the error state with the failure's text (the status code for a
\* non-success status), raises nothing, and leaves the item list as it was
\* before the call completed: empty if it was empty.
C1_FailureKeepsItems ==
    (fetchEv.op = "settled" /\ Failed(fetchEv.data)) =>
        /\ gallery.mode = "error"
        /\ gallery.cards = <<>>
        /\ CarriesFailure(fetchEv.data, gallery.message)
        /\ ~fetchEv.changed
        /\ (~fetchEv.hadItems => apodItems = <<>>)
        /\ (ev.op \in {"fetchSettles", "jsonSettles"} => ~ev.threw)

\* A HTTP 500 after an earlier successful fetch: the error state, and the
\* items of the earlier fetch still in the list.
C1_Witness ==
    /\ fetchEv.op = "settled"
    /\ fetchEv.data = [kind |-> "response", status |-> 500]
    /\ fetchEv.hadItems
    /\ apodItems # <<>>
    /\ gallery.mode = "error"

\* C2: a successful fetch that returns an array of n items (no element is
\* null) replaces the item list by that array, in the order received, and
\* the grid then holds exactly n cards, in list order, with the index
\* attributes 0, 1, ..., n-1.
C2_SuccessReplacesAndRenders ==
    (fetchEv.op = "settled" /\ Delivered(fetchEv.data) /\ AllItems(fetchEv.data.data.a)) =>
        LET a == fetchEv.data.data.a
        IN  /\ apodItems = a
            /\ gallery.mode = "cards"
            /\ Len(gallery.cards) = Len(a)
            /\ \A i \in 1..Len(a) :
                  /\ gallery.cards[i].dataIndex = NatToText(i - 1)
                  /\ gallery.cards[i].title = ToText(Get(a[i], "title"))
                  /\ gallery.cards[i].date = formatDate(Get(a[i], "date"))

\* Two items, the later date first, replaced another non-empty list.
C2_Witness ==
    /\ fetchEv.op = "settled"
    /\ Delivered(fetchEv.data)
    /\ fetchEv.hadItems
    /\ fetchEv.changed
    /\ apodItems = <<ImageItem, VideoItem>>
    /\ Len(gallery.cards) = 2

\* C3: a click or an Enter keydown on or within a card with index i opens
\* the modal with the item at position i of the current list; when index i
\* resolves to no item the modal, its content and the list stay as they are
\* and nothing is raised; another key, or an event outside every card, opens
\* nothing.
C3_Selection ==
    [][LET t == ev'.n
           selects == \/ ev'.op = "galleryClick"
                      \/ ev'.op = "galleryKeydown" /\ ev'.key = "Enter"
           i == IF t >= 1 THEN parseInt(gallery.cards[t].dataIndex) ELSE -1
           resolves == /\ i \in 0..(Len(apodItems) - 1)
                       /\ apodItems[i + 1].t = "object"
       IN  /\ (selects /\ resolves) =>
                /\ modalOverlay' = "flex"
                /\ modalInner' = modalHTML(apodItems[i + 1])
                /\ ~ev'.threw
           /\ (selects /\ ~resolves) =>
                /\ UNCHANGED <<modalOverlay, modalInner, bodyOverlays,
                               docKeydownListeners, apodItems>>
                /\ ~ev'.threw
           /\ (ev'.op = "galleryKeydown" /\ ev'.key # "Enter") =>
                /\ modalOverlay' = "flex" => modalOverlay = "flex"
                /\ UNCHANGED <<modalInner, bodyOverlays, apodItems>>
      ]_vars

\* A click on the card of an element that is no item (the number 0), while
\* the modal shows an item opened from another card: nothing changed.
C3_Witness ==
    /\ ev.op = "galleryClick"
    /\ ev.n >= 1
    /\ ~ev.threw
    /\ ItemAt(apodItems, parseInt(gallery.cards[ev.n].dataIndex)) = Num(0)
    /\ ev.before = "flex"
    /\ modalOverlay = "flex"
    /\ \E j \in 1..Len(apodItems) :
          apodItems[j].t = "object" /\ modalInner = modalHTML(apodItems[j])

\* C4: at most one modal exists: the overlay and the document's Escape
\* listener are created once, by the first openModal, which a selection in
\* the gallery makes; every later openModal reuses them; before the first
\* openModal there is no modal.
C4_SingleModal ==
    /\ [](/\ bodyOverlays <= 1
          /\ docKeydownListeners = bodyOverlays
          /\ (modalOverlay = "null") <=> (bodyOverlays = 0))
    /\ [][(bodyOverlays' # bodyOverlays \/ docKeydownListeners' # docKeydownListeners) =>
            /\ modalOverlay = "null"
            /\ bodyOverlays = 0
            /\ modalOverlay' = "flex"
            /\ ev'.op \in {"galleryClick", "galleryKeydown"}
            /\ ev'.n >= 1
         ]_vars

\* A selection opened the modal when it existed already: still one overlay
\* and one listener.
C4_Witness ==
    /\ ev.op = "galleryClick"
    /\ ev.n >= 1
    /\ ev.before # "null"
    /\ modalOverlay = "flex"
    /\ bodyOverlays = 1
    /\ docKeydownListeners = 1

\* C5: closeModal raises nothing and leaves the modal hidden, or not built
\* when it was not built; on the state it leaves, another closeModal changes
\* nothing.
C5_CloseIdempotent ==
    ev.op = "closeModal" =>
        /\ ~ev.threw
        /\ modalOverlay = (IF ev.before = "null" THEN "null" ELSE "none")
        /\ (ev.before = "null" => bodyOverlays = 0 /\ docKeydownListeners = 0)
        /\ closeModal(TheModal) = [m |-> TheModal, threw |-> FALSE]

\* closeModal called on a modal that was hidden already.
C5_Witness ==
    /\ ev.op = "closeModal"
    /\ ev.before = "none"
    /\ modalOverlay = "none"
    /\ bodyOverlays = 1

\* C6: once the modal is built, a click on the close button, a click on the
\* overlay itself and an Escape keydown each leave what closeModal leaves,
\* the overlay hidden and nothing else changed; a click inside the content
\* box leaves the modal showing.
C6_Dismissal ==
    [][LET dismissed ==
               \/ ev'.op = "modalClick" /\ ev'.key \in {"closeBtn", "modalOverlay"}
               \/ /\ ev'.op \in {"documentKeydown", "galleryKeydown"}
                  /\ ev'.key = "Escape"
                  /\ modalOverlay # "null"
       IN  /\ dismissed =>
                /\ modalOverlay' = "none"
                /\ modalOverlay' = closeModal(TheModal).m.modalOverlay
                /\ ~ev'.threw
                /\ UNCHANGED <<modalInner, bodyOverlays, docKeydownListeners>>
           /\ (ev'.op = "modalClick" /\ ev'.key = "modalContent") =>
                /\ modalOverlay' = "flex"
                /\ UNCHANGED <<modalInner, bodyOverlays, docKeydownListeners>>
      ]_vars

\* A click on the overlay background hid the visible modal.
C6_Witness ==
    /\ ev.op = "modalClick"
    /\ ev.key = "modalOverlay"
    /\ ev.before = "flex"
    /\ modalOverlay = "none"

\* C7: once every started fetch has completed, the item list and the grid
\* are those the call that completed last leaves, whether or not a call
\* started after it had completed before it: its array and its cards, or its
\* array and the error state when rendering threw, or the error state and an
\* unchanged list when it failed.
C7_LastCompletionWins ==
    AllDone =>
        /\ fetchEv.op = "settled"
        /\ (Delivered(fetchEv.data) /\ AllItems(fetchEv.data.data.a)) =>
              /\ apodItems = fetchEv.data.data.a
              /\ gallery.mode = "cards"
              /\ Len(gallery.cards) = Len(apodItems)
              /\ \A i \in 1..Len(apodItems) :
                    gallery.cards[i].title = ToText(Get(apodItems[i], "title"))
        /\ (Delivered(fetchEv.data) /\ ~AllItems(fetchEv.data.data.a)) =>
              /\ apodItems = fetchEv.data.data.a
              /\ gallery.mode = "error"
        /\ Failed(fetchEv.data) =>
              /\ gallery.mode = "error"
              /\ ~fetchEv.changed

\* The call started first completed last and replaced the newer items by
\* its own.
C7_Witness ==
    /\ AllDone
    /\ fetchEv.stale
    /\ fetchEv.hadItems
    /\ fetchEv.changed
    /\ Delivered(fetchEv.data)
    /\ apodItems = fetchEv.data.data.a
    /\ apodItems # <<>>
    /\ gallery.mode = "cards"

\* The strict pattern: four digits, a hyphen, two digits, a hyphen, two digits.
IsIsoDate(s) ==
    /\ Len(s) = 10
    /\ \A i \in 1..10 :
          IF i \in {5, 8} THEN s[i] = "-"
          ELSE s[i] \in {"0", "1", "2", "3", "4", "5", "6", "7", "8", "9"}

MonthAbbreviation(mm) ==
    CASE mm <= 1 -> <<"J", "a", "n">>
      [] mm = 2 -> <<"F", "e", "b">>
      [] mm = 3 -> <<"M", "a", "r">>
      [] mm = 4 -> <<"A", "p", "r">>
      [] mm = 5 -> <<"M", "a", "y">>
      [] mm = 6 -> <<"J", "u", "n">>
      [] mm = 7 -> <<"J", "u", "l">>
      [] mm = 8 -> <<"A", "u", "g">>
      [] mm = 9 -> <<"S", "e", "p">>
      [] mm = 10 -> <<"O", "c", "t">>
      [] mm = 11 -> <<"N", "o", "v">>
      [] OTHER -> <<"D", "e", "c">>

\* "{Mon} {D}, {YYYY}" for a text of the strict pattern.
Formatted(s) ==
    MonthAbbreviation(10 * DigitVal(s[6]) + DigitVal(s[7]))
    \o <<" ">> \o (IF s[9] = "0" THEN <<s[10]>> ELSE <<s[9], s[10]>>)
    \o <<",", " ">> \o <<s[1], s[2], s[3], s[4]>>

\* C8: formatDate returns the empty text for a value that is no string, the
\* input for a string that is not of the strict pattern, and otherwise
\* "{Mon} {D}, {YYYY}": the month clamped into January..December, the day
\* without a leading zero, the year's four digits.
C8_FormatDate ==
    ev.op = "formatDate" =>
        callRet = IF callArg.t # "string" THEN <<>>
                  ELSE IF ~IsIsoDate(callArg.s) THEN callArg.s
                  ELSE Formatted(callArg.s)

\* Month 13, day 05: "Dec 5, 2025".
C8_Witness ==
    /\ ev.op = "formatDate"
    /\ callArg = Str(<<"2", "0", "2", "5", "-", "1", "3", "-", "0", "5">>)
    /\ callRet = <<"D", "e", "c", " ", "5", ",", " ", "2", "0", "2", "5">>

\* C9, as stated: while a started fetch has not completed, the grid shows
\* the loading indicator.
C9_LoadingUntilOwnCompletion == Pending => gallery.mode = "loading"

\* C9, amended: fetchAndRender puts the grid into the loading state, and the
\* grid shows the loading indicator from then until the next completion of
\* a fetch, this one's or an overlapping one's; nothing else changes it.
C9_LoadingUntilNextCompletion ==
    fetchEv.op = "start" =>
        /\ Pending
        /\ gallery.mode = "loading"
        /\ gallery.cards = <<>>

\* A click in the gallery while the only request waits for its body: the
\* loading indicator still shows.
C9_Witness ==
    /\ pc = <<"json">>
    /\ fetchEv.op = "start"
    /\ ev.op = "galleryClick"
    /\ gallery.mode = "loading"

\* C10: whenever the grid shows cards there is one card per item of the
\* current list, the card at position i rendered from the item at position
\* i with index attribute i; and whenever the modal is opened or its content
\* replaced, the content is that of the item the current list holds at the
\* index of the selected card.
C10_GridMatchesItems ==
    /\ [](gallery.mode = "cards" =>
            /\ Len(gallery.cards) = Len(apodItems)
            /\ \A i \in 1..Len(apodItems) :
                  /\ gallery.cards[i] = renderCard(apodItems[i], i - 1)
                  /\ parseInt(gallery.cards[i].dataIndex) = i - 1)
    /\ [][(modalOverlay' = "flex" /\ (modalOverlay # "flex" \/ modalInner' # modalInner)) =>
            /\ gallery.mode = "cards"
            /\ ev'.n \in 1..Len(apodItems)
            /\ modalInner' = modalHTML(apodItems[ev'.n])
            /\ Truthy(apodItems[ev'.n])
         ]_vars

\* Cards of two items while a later request is still pending, and the
\* modal opened from the second card by Enter.
C10_Witness ==
    /\ gallery.mode = "cards"
    /\ Len(gallery.cards) = 2
    /\ Pending
    /\ ev.op = "galleryKeydown"
    /\ ev.n = 2
    /\ modalOverlay = "flex"
    /\ modalInner = modalHTML(apodItems[2])

=============================================================================
